---- MODULE Spec2Model ----
(***************************************************************************)
(* Model of src/main.py: a FastAPI facade around yt-dlp.                    *)
(*                                                                         *)
(* Two module-level dicts (progress_store, file_store) are shared by the   *)
(* request handlers and by the background orchestrator start_download.     *)
(* All three endpoints are plain `def` functions, so FastAPI runs each     *)
(* call on a worker thread, and BackgroundTasks runs start_download and    *)
(* os.remove on worker threads after the response has been sent.  Threads  *)
(* interleave between any two statements; a single dict operation is       *)
(* atomic.  Each action below is therefore one shared-memory or filesystem *)
(* access of the code together with the thread-local statements around it. *)
(*                                                                         *)
(* Floats are modelled as integer tenths (Float(99) is 99.0).              *)
(***************************************************************************)
EXTENDS Integers, Sequences, FiniteSets, TLC

\* Number of POST /download requests the model issues.
MaxTasks == 2
\* Number of GET /download-file requests the model issues.
MaxFetches == 2

TaskIds == 1..MaxTasks
FetchIds == 1..MaxFetches

VARIABLES
    progress_store,  \* dict task_id -> float              (main.py:21)
    file_store,      \* dict task_id -> path               (main.py:22)
    disk,            \* paths that exist under DOWNLOAD_DIR (main.py:18)
    pc,              \* per task: where its submit / start_download stands
    req,             \* per task: the DownloadRequest it was submitted with
    fetch,           \* per fetch request: where download_file stands
    returned,        \* task ids a submit response has carried to a client
    ydl_opts,        \* per task: the options handed to YoutubeDL (line 93)
    finished_seen,   \* tasks whose running extract_info reported "finished"
    polled           \* the poll response the step just taken produced, if any

vars == <<progress_store, file_store, disk, pc, req, fetch, returned, ydl_opts,
          finished_seen, polled>>

(***************************************************************************)
(* Python dict operations.                                                 *)
(***************************************************************************)
\* d[k] = v
DictSet(d, k, v) == [x \in DOMAIN d \cup {k} |-> IF x = k THEN v ELSE d[x]]

\* d.pop(k, None)
DictPop(d, k) == [x \in DOMAIN d \ {k} |-> d[x]]

\* d.get(k, default)
DictGet(d, k, default) == IF k \in DOMAIN d THEN d[k] ELSE default

\* {}
EmptyDict == [x \in {} |-> 0]

\* A float with integral value n, in tenths.
Float(n) == n * 10

(***************************************************************************)
(* Strings the hook parses are sequences of one-character strings.         *)
(***************************************************************************)
Digits == <<"0", "1", "2", "3", "4", "5", "6", "7", "8", "9">>

IsDigit(c) == \E i \in 1..10 : Digits[i] = c

DigitVal(c) == (CHOOSE i \in 1..10 : Digits[i] = c) - 1

IsSpace(c) == c = " "

\* str.replace(old, "") for a one-character old
RemoveChar(s, old) == SelectSeq(s, LAMBDA c : c # old)

RECURSIVE LStrip(_)
LStrip(s) == IF s # <<>> /\ IsSpace(Head(s)) THEN LStrip(Tail(s)) ELSE s

RECURSIVE RStrip(_)
RStrip(s) ==
    IF s # <<>> /\ IsSpace(s[Len(s)]) THEN RStrip(SubSeq(s, 1, Len(s) - 1)) ELSE s

\* str.strip()
Strip(s) == RStrip(LStrip(s))

RECURSIVE DigitsVal(_)
DigitsVal(s) ==
    IF s = <<>> THEN 0 ELSE DigitsVal(SubSeq(s, 1, Len(s) - 1)) * 10 + DigitVal(s[Len(s)])

AllDigits(s) == \A i \in 1..Len(s) : IsDigit(s[i])

\* The outcome of float(s): a value in tenths, or ValueError raised.
Parsed(v) == [ok |-> TRUE, value |-> v]
ValueError == [ok |-> FALSE, value |-> 0]

\* float(s) of an unsigned decimal literal: digits [. digit]
ParseUnsigned(s) ==
    LET dots == {i \in 1..Len(s) : s[i] = "."}
    IN  IF dots = {}
        THEN IF s # <<>> /\ AllDigits(s) THEN Parsed(DigitsVal(s) * 10) ELSE ValueError
        ELSE LET d == CHOOSE i \in dots : TRUE
                 ip == SubSeq(s, 1, d - 1)
                 fp == SubSeq(s, d + 1, Len(s))
             IN  IF /\ Cardinality(dots) = 1
                    /\ AllDigits(ip) /\ AllDigits(fp)
                    /\ Len(ip) + Len(fp) > 0
                    /\ Len(fp) <= 1
                 THEN Parsed(DigitsVal(ip) * 10 + DigitsVal(fp))
                 ELSE ValueError

\* float(s): surrounding whitespace is ignored, then [sign] digits [. digit].
\* Every other string the hook is given here raises ValueError.
ParseFloat(s) ==
    LET t == Strip(s)
    IN  IF t # <<>> /\ Head(t) \in {"-", "+"}
        THEN LET u == ParseUnsigned(Tail(t))
             IN  IF ~u.ok THEN ValueError
                 ELSE IF Head(t) = "-" THEN Parsed(0 - u.value) ELSE u
        ELSE ParseUnsigned(t)

(***************************************************************************)
(* Inputs.                                                                 *)
(***************************************************************************)
\* DownloadRequest bodies (url only travels to the library and is left out).
Requests ==
    { [type |-> "video", quality |-> "720"],
      [type |-> "audio", quality |-> "192"] }

NoRequest == [type |-> "", quality |-> ""]

\* type and quality are unvalidated strings: the documented values and others.
AllRequests ==
    [type : {"video", "audio", "clip"}, quality : {"1080", "720", "best", "192"}]

\* Values yt-dlp puts under "_percent_str".
PercentStrs ==
    { <<" ", "5", "0", ".", "0", "%">>,
      <<"1", "0", "0", ".", "0", "%">>,
      <<" ", " ", "N", "/", "A", "%">> }

\* The dicts yt-dlp hands to a progress hook.
HookEvents ==
    { ("status" :> "downloading") @@ ("_percent_str" :> s) : s \in PercentStrs }
    \cup { ("status" :> "downloading"), ("status" :> "finished"), ("status" :> "error") }

\* Extensions of the file extract_info leaves on disk: a merge or a transcode
\* gives the forced container, a single pre-muxed video keeps its own.
LibraryOutputExts(r) == IF r.type = "video" THEN {"mp4", "webm"} ELSE {"mp3"}

(***************************************************************************)
(* progress_hook(task_id).hook(d): the progress_store it leaves.           *)
(***************************************************************************)
\* Mutant: the closure writes under the id submitted last, not its own.
progress_hook_latest_task(task_id, d) ==
    LET latest == CHOOSE t \in TaskIds :
                      /\ pc[t] # "none"
                      /\ \A u \in TaskIds : pc[u] # "none" => u <= t
    IN  IF d["status"] = "downloading"
        THEN LET percent_str ==
                     Strip(RemoveChar(DictGet(d, "_percent_str", <<"0", "%">>), "%"))
                 f == ParseFloat(percent_str)
             IN  IF f.ok
                 THEN DictSet(progress_store, latest, f.value)
                 ELSE DictSet(progress_store, latest,
                              DictGet(progress_store, latest, Float(0)))
        ELSE IF d["status"] = "finished"
        THEN DictSet(progress_store, latest, Float(99))
        ELSE progress_store

progress_hook(task_id, d) ==
    IF d["status"] = "downloading"
    THEN LET percent_str ==
                 Strip(RemoveChar(DictGet(d, "_percent_str", <<"0", "%">>), "%"))
             f == ParseFloat(percent_str)
         IN  IF f.ok
             THEN DictSet(progress_store, task_id, f.value)
             ELSE DictSet(progress_store, task_id,
                          DictGet(progress_store, task_id, Float(0)))
    ELSE IF d["status"] = "finished"
    THEN DictSet(progress_store, task_id, Float(99))
    ELSE progress_store

(***************************************************************************)
(* Paths: <<task_id, ext>> stands for DOWNLOAD_DIR/{task_id}_{title}.{ext}, *)
(* <<task_id>> for the same without its extension, <<>> for None.          *)
(***************************************************************************)
\* os.path.splitext(path)[0]
SplitExtBase(path) == SubSeq(path, 1, 1)

\* Mutant: the extension is chosen by testing for "audio".
FinalPath_tests_audio(base_path, r) ==
    IF r.type = "audio" THEN base_path \o <<"mp3">> ELSE base_path \o <<"mp4">>

\* start_download lines 96-102
FinalPath(base_path, r) ==
    IF r.type = "video" THEN base_path \o <<"mp4">> ELSE base_path \o <<"mp3">>

\* os.path.exists(path)
Exists(path) == path \in disk

\* uuid.uuid4(): an id no earlier call returned
Uuid4 == CHOOSE t \in TaskIds : pc[t] = "none" /\ \A u \in 1..(t - 1) : pc[u] # "none"

(***************************************************************************)
(* ydl_opts (lines 57-91).  A format selector "a+b/c" is the sequence of   *)
(* its alternatives, tried in order; an alternative is the sequence of the *)
(* streams it merges; a stream is a name with its [height<=N] filter, 0    *)
(* when it has none.                                                       *)
(***************************************************************************)
Stream(name, max_height) == [name |-> name, max_height |-> max_height]

\* lines 78-86
Format(r) ==
    IF r.type = "video"
    THEN IF r.quality = "1080"
         THEN << <<Stream("bestvideo", 1080), Stream("bestaudio", 0)>>, <<Stream("best", 0)>> >>
         ELSE IF r.quality = "720"
         THEN << <<Stream("bestvideo", 720), Stream("bestaudio", 0)>>, <<Stream("best", 0)>> >>
         ELSE << <<Stream("bestvideo", 0), Stream("bestaudio", 0)>>, <<Stream("best", 0)>> >>
    ELSE << <<Stream("bestaudio", 0)>>, <<Stream("best", 0)>> >>

\* lines 87-91; the key is absent on the video branch
Postprocessors(r) ==
    IF r.type = "video"
    THEN <<>>
    ELSE << [key |-> "FFmpegExtractAudio", preferredcodec |-> "mp3",
             preferredquality |-> r.quality] >>

\* lines 57-91
YdlOpts(task_id, r) ==
    [outtmpl |-> <<task_id, "%(ext)s">>,
     noplaylist |-> TRUE,
     merge_output_format |-> "mp4",
     format |-> Format(r),
     postprocessors |-> Postprocessors(r)]

NoOpts ==
    [outtmpl |-> <<>>, noplaylist |-> FALSE, merge_output_format |-> "",
     format |-> <<>>, postprocessors |-> <<>>]

\* No poll response.
NoPoll == [task_id |-> 0, status |-> 0, progress |-> 0]

(***************************************************************************)
(* Initial state: the module has just been imported.                       *)
(***************************************************************************)
Init ==
    /\ progress_store = EmptyDict
    /\ file_store = EmptyDict
    /\ disk = {}
    /\ pc = [t \in TaskIds |-> "none"]
    /\ req = [t \in TaskIds |-> NoRequest]
    /\ fetch = [k \in FetchIds |->
                  [pc |-> "idle", task_id |-> 0, path |-> <<>>, status |-> 0, issued_at |-> ""]]
    /\ returned = {}
    /\ ydl_opts = [t \in TaskIds |-> NoOpts]
    /\ finished_seen = {}
    /\ polled = NoPoll

(***************************************************************************)
(* POST /download (lines 116-121).  The framework sends the response and  *)
(* only then starts the background tasks the handler added.                *)
(***************************************************************************)
\* Mutant: line 119 is missing, the entry is first written by the orchestrator.
download_without_initial_progress(r) ==
    /\ \E t \in TaskIds : pc[t] = "none"
    /\ LET task_id == Uuid4
       IN  /\ pc' = [pc EXCEPT ![task_id] = "accepted"]
           /\ req' = [req EXCEPT ![task_id] = r]
    /\ polled' = NoPoll
    /\ UNCHANGED <<progress_store, file_store, disk, fetch, returned, ydl_opts, finished_seen>>

\* lines 118-120: allocate the id, store 0.0, add the background task
download(r) ==
    /\ \E t \in TaskIds : pc[t] = "none"
    /\ LET task_id == Uuid4
       IN  /\ progress_store' = DictSet(progress_store, task_id, Float(0))
           /\ pc' = [pc EXCEPT ![task_id] = "accepted"]
           /\ req' = [req EXCEPT ![task_id] = r]
    /\ polled' = NoPoll
    /\ UNCHANGED <<file_store, disk, fetch, returned, ydl_opts, finished_seen>>

\* line 121: return {"task_id": task_id}; the response is sent
download_returns(task_id) ==
    /\ pc[task_id] = "accepted"
    /\ returned' = returned \cup {task_id}
    /\ pc' = [pc EXCEPT ![task_id] = "scheduled"]
    /\ polled' = NoPoll
    /\ UNCHANGED <<progress_store, file_store, disk, req, fetch, ydl_opts, finished_seen>>

(***************************************************************************)
(* start_download (lines 55-111).                                          *)
(***************************************************************************)
\* lines 56-94: build ydl_opts, enter extract_info
start_download(task_id) ==
    /\ pc[task_id] = "scheduled"
    /\ ydl_opts' = [ydl_opts EXCEPT ![task_id] = YdlOpts(task_id, req[task_id])]
    /\ pc' = [pc EXCEPT ![task_id] = "extracting"]
    /\ polled' = NoPoll
    /\ UNCHANGED <<progress_store, file_store, disk, req, fetch, returned, finished_seen>>

\* extract_info calls the progress hook (lines 38-50)
hook(task_id, d) ==
    /\ pc[task_id] = "extracting"
    /\ progress_store' = progress_hook(task_id, d)
    /\ finished_seen' = IF d["status"] = "finished"
                        THEN finished_seen \cup {task_id} ELSE finished_seen
    /\ polled' = NoPoll
    /\ UNCHANGED <<file_store, disk, pc, req, fetch, returned, ydl_opts>>

\* line 94: extract_info returns, its output file is on disk
extract_info_returns(task_id) ==
    /\ pc[task_id] = "extracting"
    /\ \E ext \in LibraryOutputExts(req[task_id]) : disk' = disk \cup {<<task_id, ext>>}
    /\ pc' = [pc EXCEPT ![task_id] = "extracted"]
    /\ finished_seen' = finished_seen \ {task_id}
    /\ polled' = NoPoll
    /\ UNCHANGED <<progress_store, file_store, req, fetch, returned, ydl_opts>>

\* lines 96-105: file_store[task_id] = final_path
store_final_path(task_id) ==
    /\ pc[task_id] = "extracted"
    /\ LET base_path == SplitExtBase(<<task_id, "ext">>)
           final_path == FinalPath(base_path, req[task_id])
       IN  file_store' = DictSet(file_store, task_id, final_path)
    /\ pc' = [pc EXCEPT ![task_id] = "stored"]
    /\ polled' = NoPoll
    /\ UNCHANGED <<progress_store, disk, req, fetch, returned, ydl_opts, finished_seen>>

\* Mutant: line 106 is missing, the task ends with the hook's last value.
store_done_without_100(task_id) ==
    /\ pc[task_id] = "stored"
    /\ pc' = [pc EXCEPT ![task_id] = "done"]
    /\ polled' = NoPoll
    /\ UNCHANGED <<progress_store, file_store, disk, req, fetch, returned, ydl_opts, finished_seen>>

\* line 106: progress_store[task_id] = 100.0
store_done(task_id) ==
    /\ pc[task_id] = "stored"
    /\ progress_store' = DictSet(progress_store, task_id, Float(100))
    /\ pc' = [pc EXCEPT ![task_id] = "done"]
    /\ polled' = NoPoll
    /\ UNCHANGED <<file_store, disk, req, fetch, returned, ydl_opts, finished_seen>>

\* Mutant: line 109 is missing, the handler only pops the path.
extract_info_raises_without_sentinel(task_id) ==
    /\ pc[task_id] = "extracting"
    /\ pc' = [pc EXCEPT ![task_id] = "failing"]
    /\ finished_seen' = finished_seen \ {task_id}
    /\ polled' = NoPoll
    /\ UNCHANGED <<progress_store, file_store, disk, req, fetch, returned, ydl_opts>>

\* line 94 raises; lines 108-109: progress_store[task_id] = -1
extract_info_raises(task_id) ==
    /\ pc[task_id] = "extracting"
    /\ progress_store' = DictSet(progress_store, task_id, Float(-1))
    /\ pc' = [pc EXCEPT ![task_id] = "failing"]
    /\ finished_seen' = finished_seen \ {task_id}
    /\ polled' = NoPoll
    /\ UNCHANGED <<file_store, disk, req, fetch, returned, ydl_opts>>

\* lines 110-111: file_store.pop(task_id, None); raise e
pop_on_failure(task_id) ==
    /\ pc[task_id] = "failing"
    /\ file_store' = DictPop(file_store, task_id)
    /\ pc' = [pc EXCEPT ![task_id] = "failed"]
    /\ polled' = NoPoll
    /\ UNCHANGED <<progress_store, disk, req, fetch, returned, ydl_opts, finished_seen>>

(***************************************************************************)
(* GET /progress/{task_id} (lines 124-126).                                *)
(***************************************************************************)
\* The body of the response: {"progress": progress_store.get(task_id, 0.0)}
progress_response(task_id) == DictGet(progress_store, task_id, Float(0))

\* Mutant: progress_store.setdefault(task_id, 0.0) instead of get.
progress_setdefault(task_id) ==
    /\ polled' = [task_id |-> task_id, status |-> 200,
                  progress |-> progress_response(task_id)]
    /\ progress_store' = DictSet(progress_store, task_id, progress_response(task_id))
    /\ UNCHANGED <<file_store, disk, pc, req, fetch, returned, ydl_opts, finished_seen>>

\* line 126: the handler reads one dict entry and returns it
progress(task_id) ==
    /\ polled' = [task_id |-> task_id, status |-> 200,
                  progress |-> progress_response(task_id)]
    /\ UNCHANGED <<progress_store, file_store, disk, pc, req, fetch, returned, ydl_opts,
                   finished_seen>>

(***************************************************************************)
(* GET /download-file/{task_id} (lines 129-144).  Request k is issued      *)
(* after request k - 1; the handlers then run concurrently.                *)
(* status is the HTTP status of the response, 0 while there is none;       *)
(* issued_at records the outcome the task's orchestrator had reached when  *)
(* line 131 ran.                                                           *)
(***************************************************************************)
\* "done" once line 106 has run, "raised" once extract_info has raised
Outcome(task_id) ==
    IF pc[task_id] = "done" THEN "done"
    ELSE IF pc[task_id] \in {"failing", "failed"} THEN "raised"
    ELSE ""

\* line 131: path = file_store.get(task_id)
download_file(k, task_id) ==
    /\ fetch[k].pc = "idle"
    /\ k > 1 => fetch[k - 1].pc # "idle"
    /\ fetch' = [fetch EXCEPT ![k] = [pc |-> "check", task_id |-> task_id,
                                      path |-> DictGet(file_store, task_id, <<>>),
                                      status |-> 0, issued_at |-> Outcome(task_id)]]
    /\ polled' = NoPoll
    /\ UNCHANGED <<progress_store, file_store, disk, pc, req, returned, ydl_opts, finished_seen>>

\* Mutant: line 133 only tests the path, not os.path.exists(path).
download_file_check_path_only(k) ==
    /\ fetch[k].pc = "check"
    /\ IF fetch[k].path = <<>>
       THEN fetch' = [fetch EXCEPT ![k].pc = "done", ![k].status = 404]
       ELSE fetch' = [fetch EXCEPT ![k].pc = "pop_file"]
    /\ polled' = NoPoll
    /\ UNCHANGED <<progress_store, file_store, disk, pc, req, returned, ydl_opts, finished_seen>>

\* lines 133-136: 404 unless the path is set and exists
download_file_check(k) ==
    /\ fetch[k].pc = "check"
    /\ IF fetch[k].path = <<>> \/ ~Exists(fetch[k].path)
       THEN fetch' = [fetch EXCEPT ![k].pc = "done", ![k].status = 404]
       ELSE fetch' = [fetch EXCEPT ![k].pc = "pop_file"]
    /\ polled' = NoPoll
    /\ UNCHANGED <<progress_store, file_store, disk, pc, req, returned, ydl_opts, finished_seen>>

\* line 137: file_store.pop(task_id, None)
download_file_pop_file(k) ==
    /\ fetch[k].pc = "pop_file"
    /\ file_store' = DictPop(file_store, fetch[k].task_id)
    /\ fetch' = [fetch EXCEPT ![k].pc = "pop_progress"]
    /\ polled' = NoPoll
    /\ UNCHANGED <<progress_store, disk, pc, req, returned, ydl_opts, finished_seen>>

\* lines 138-144: progress_store.pop(task_id, None); return FileResponse(...)
download_file_pop_progress(k) ==
    /\ fetch[k].pc = "pop_progress"
    /\ progress_store' = DictPop(progress_store, fetch[k].task_id)
    /\ fetch' = [fetch EXCEPT ![k].pc = "respond"]
    /\ polled' = NoPoll
    /\ UNCHANGED <<file_store, disk, pc, req, returned, ydl_opts, finished_seen>>

\* The framework sends the FileResponse: it stats and streams the file, or
\* fails (500, and the background task is dropped) when the file is gone.
send_file_response(k) ==
    /\ fetch[k].pc = "respond"
    /\ IF Exists(fetch[k].path)
       THEN fetch' = [fetch EXCEPT ![k].pc = "remove", ![k].status = 200]
       ELSE fetch' = [fetch EXCEPT ![k].pc = "done", ![k].status = 500]
    /\ polled' = NoPoll
    /\ UNCHANGED <<progress_store, file_store, disk, pc, req, returned, ydl_opts, finished_seen>>

\* line 136, run after the response: os.remove(path)
remove_file(k) ==
    /\ fetch[k].pc = "remove"
    /\ disk' = disk \ {fetch[k].path}
    /\ fetch' = [fetch EXCEPT ![k].pc = "done"]
    /\ polled' = NoPoll
    /\ UNCHANGED <<progress_store, file_store, pc, req, returned, ydl_opts, finished_seen>>

(***************************************************************************)
(* Specification.                                                          *)
(***************************************************************************)
Orchestrate(t) ==
    \/ download_returns(t)
    \/ start_download(t)
    \/ \E d \in HookEvents : hook(t, d)
    \/ extract_info_returns(t)
    \/ store_final_path(t)
    \/ store_done(t)
    \/ extract_info_raises(t)
    \/ pop_on_failure(t)

Fetch(k) ==
    \/ \E t \in TaskIds : download_file(k, t)
    \/ download_file_check(k)
    \/ download_file_pop_file(k)
    \/ download_file_pop_progress(k)
    \/ send_file_response(k)
    \/ remove_file(k)

Next ==
    \/ \E r \in Requests : download(r)
    \/ \E t \in TaskIds : Orchestrate(t)
    \/ \E t \in TaskIds : progress(t)
    \/ \E k \in FetchIds : Fetch(k)

Spec == Init /\ [][Next]_vars

\* Background tasks are scheduled fairly, every statement of a running
\* thread is eventually executed, and extract_info returns or raises.
Fairness ==
    \A t \in TaskIds :
        /\ WF_vars(download_returns(t))
        /\ WF_vars(start_download(t))
        /\ WF_vars(extract_info_returns(t) \/ extract_info_raises(t))
        /\ WF_vars(store_final_path(t))
        /\ WF_vars(store_done(t))
        /\ WF_vars(pop_on_failure(t))

FairSpec == Spec /\ Fairness

\* The orchestrator alone, over every request body: what start_download
\* computes from the request does not depend on hooks, polls or fetches.
OrchestratorNext ==
    \/ \E r \in AllRequests : download(r)
    \/ \E t \in TaskIds :
          \/ download_returns(t)
          \/ start_download(t)
          \/ extract_info_returns(t)
          \/ store_final_path(t)
          \/ store_done(t)
          \/ extract_info_raises(t)
          \/ pop_on_failure(t)

OrchestratorSpec == Init /\ [][OrchestratorNext]_vars

(***************************************************************************)
(* Vocabulary of the properties.                                           *)
(***************************************************************************)
HasProgress(t) == t \in DOMAIN progress_store
HasPath(t) == t \in DOMAIN file_store
ProgressIs(t, v) == HasProgress(t) /\ progress_store[t] = v

\* start_download is between its first statement and its last
Running(t) == pc[t] \in {"extracting", "extracted", "stored"}
\* extract_info has raised
Raised(t) == pc[t] \in {"failing", "failed"}
\* a response has carried the task's file to a client
Delivered(t) == \E k \in FetchIds : fetch[k].task_id = t /\ fetch[k].status = 200
\* the progress entry as a set: empty when the id has none
Entry(t) == IF HasProgress(t) THEN {progress_store[t]} ELSE {}

(***************************************************************************)
(* C1.  A task id has an entry in file_store if and only if its entry in   *)
(* progress_store equals 100, in every reachable state.                    *)
(* Fails: the hook stores 100.0 on a "100.0%" event, line 105 sets the     *)
(* path one step before line 106 sets 100.0, and a fetch run between the   *)
(* two pops both entries before line 106 writes 100.0 back.                *)
(***************************************************************************)
C1_PathIffDone ==
    \A t \in TaskIds : HasPath(t) <=> ProgressIs(t, Float(100))

(***************************************************************************)
(* C2.  Among all fetches of a completed task exactly one returns the      *)
(* file; every other one returns 404.  Stated here as its safety half: of  *)
(* the fetches issued once the task is done, at most one gets status 200.  *)
(* Fails: two overlapping handlers both read the path (line 131) before    *)
(* either pops it (line 137), and both responses stream the file.          *)
(***************************************************************************)
C2_SingleDelivery ==
    \A t \in TaskIds :
        Cardinality({k \in FetchIds : /\ fetch[k].task_id = t
                                      /\ fetch[k].issued_at = "done"
                                      /\ fetch[k].status = 200}) <= 1

(***************************************************************************)
(* C3.  Until 100 or -1 is reached, the values stored as a task's progress *)
(* never decrease, whatever events the library delivers.                   *)
(* Fails: the hook stores whatever the event says (a second stream starts  *)
(* again at 0 after "finished" stored 99).                                 *)
(***************************************************************************)
C3_Monotonic ==
    [][\A t \in TaskIds :
          ( /\ HasProgress(t) /\ HasProgress(t)'
            /\ progress_store[t] \notin {Float(100), Float(-1)}
            /\ progress_store'[t] # Float(-1) )
          => progress_store'[t] >= progress_store[t]]_vars

(***************************************************************************)
(* C4.  A fetch of a task whose stored progress is not 100 returns 404.    *)
(* Stated on the step that decides the response (line 133): a handler      *)
(* passes the check only if the task's progress is 100 at that moment.     *)
(* Fails between line 105 and line 106 of the orchestrator.                *)
(***************************************************************************)
C4_FetchNeedsDone ==
    [][\A k \in FetchIds :
          (fetch[k].pc = "check" /\ fetch'[k].pc = "pop_file")
          => ProgressIs(fetch[k].task_id, Float(100))]_vars

(***************************************************************************)
(* C5.  Every change of a task's stored progress follows                   *)
(* CREATED(0) -> DOWNLOADING(0..99) -> FINALIZING(99) -> DONE(100) ->      *)
(* CONSUMED(deleted), or goes to FAILED(-1), and FAILED is never left.     *)
(* Read generously: any move inside 0..99 is allowed.                      *)
(* Fails: the hook stores 100.0 and later values below it, a fetch between *)
(* lines 105 and 106 deletes an entry that is not 100, and line 106 then   *)
(* recreates the deleted entry.                                            *)
(***************************************************************************)
Active(e) == \E v \in e : Float(0) <= v /\ v <= Float(99)

C5_Lifecycle ==
    [][\A t \in TaskIds :
          Entry(t)' # Entry(t) =>
             \/ Entry(t) = {} /\ Entry(t)' = {Float(0)}
             \/ Active(Entry(t)) /\ Active(Entry(t)')
             \/ Active(Entry(t)) /\ Entry(t)' = {Float(100)}
             \/ Entry(t) = {Float(100)} /\ Entry(t)' = {} /\ ~HasPath(t)'
             \/ Entry(t) # {Float(-1)} /\ Entry(t)' = {Float(-1)}]_vars

(***************************************************************************)
(* C6.  Once extract_info has raised for a task, its progress is -1 and    *)
(* file_store has no entry for it, in that state and in every later one,   *)
(* and every fetch issued from then on finds no path and returns 404.      *)
(***************************************************************************)
C6_FailedIsFinal ==
    /\ [](\A t \in TaskIds : Raised(t) => ProgressIs(t, Float(-1)) /\ ~HasPath(t))
    /\ [](\A k \in FetchIds :
             fetch[k].issued_at = "raised" =>
                /\ fetch[k].path = <<>>
                /\ fetch[k].pc \in {"check", "done"}
                /\ fetch[k].status \in {0, 404}
                /\ fetch[k].pc = "done" => fetch[k].status = 404)
    /\ [][\A t \in TaskIds : Raised(t) => Raised(t)']_vars

\* a fetch issued after the failure has been answered
C6_Witness ==
    \E k \in FetchIds :
        /\ fetch[k].issued_at = "raised" /\ fetch[k].pc = "done"
        /\ pc[fetch[k].task_id] = "failed"

(***************************************************************************)
(* C7.  While a submitted task's orchestrator has not completed, a poll    *)
(* returns p with 0 <= p < 100.                                            *)
(* Fails: the hook stores the library's "100.0%" while streams are still   *)
(* to be downloaded or merged.                                             *)
(***************************************************************************)
C7_PollBelow100 ==
    \A t \in TaskIds :
        (pc[t] \in {"accepted", "scheduled"} \/ Running(t))
        => Float(0) <= progress_response(t) /\ progress_response(t) < Float(100)

(***************************************************************************)
(* C8.  After a fetch of a task id has succeeded, neither dict has an      *)
(* entry for the id, in every later state.                                 *)
(* Fails: a fetch served between lines 105 and 106 is followed by line     *)
(* 106, which stores 100.0 under the consumed id.                          *)
(***************************************************************************)
C8_ConsumedStaysGone ==
    \A t \in TaskIds : Delivered(t) => ~HasProgress(t) /\ ~HasPath(t)

(***************************************************************************)
(* C9.  Submit takes an id that was never used and is in neither dict,     *)
(* stores progress 0.0 for it before the orchestrator takes a step, and    *)
(* the orchestrator takes its first step only after the response with the  *)
(* id has been sent.                                                       *)
(***************************************************************************)
C9_Submit ==
    /\ [](\A t \in TaskIds :
             /\ pc[t] = "none" => ~HasProgress(t) /\ ~HasPath(t) /\ t \notin returned
             /\ pc[t] \in {"accepted", "scheduled"} =>
                    ProgressIs(t, Float(0)) /\ ~HasPath(t)
             /\ pc[t] \notin {"none", "accepted"} => t \in returned)
    /\ [][\A t \in TaskIds :
             /\ pc'[t] = "accepted" => pc[t] \in {"none", "accepted"}
             /\ (pc[t] = "none" /\ pc'[t] # "none") =>
                    pc'[t] = "accepted" /\ ProgressIs(t, Float(0))']_vars

\* a second submit has returned while the first task's orchestrator runs
C9_Witness ==
    \E t, u \in TaskIds :
        t # u /\ pc[t] = "scheduled" /\ t \in returned /\ Running(u)

(***************************************************************************)
(* C10.  Under fair scheduling, and with extract_info returning or         *)
(* raising, every submitted task's orchestrator ends with progress 100     *)
(* (line 106) or -1 (line 109) stored, whatever polls, fetches and further *)
(* submits the clients issue.                                              *)
(***************************************************************************)
Ended(t) ==
    \/ pc[t] = "done" /\ ProgressIs(t, Float(100))
    \/ Raised(t) /\ ProgressIs(t, Float(-1))

C10_RunsToTheEnd ==
    \A t \in TaskIds : (pc[t] = "accepted") ~> Ended(t)

\* a task has ended although a fetch consumed its entries before line 106
C10_Witness ==
    \E t \in TaskIds : Ended(t) /\ Delivered(t)

(***************************************************************************)
(* C11.  A fetch returns 404 exactly when file_store has no path for the   *)
(* id (line 131) or the path it holds does not exist on disk (line 133);   *)
(* a fetch that returns 404 changes neither dict nor the disk and          *)
(* schedules no deletion.                                                  *)
(***************************************************************************)
C11_NotFound ==
    /\ [][\A k \in FetchIds :
             /\ (fetch[k].pc = "idle" /\ fetch'[k].pc # "idle") =>
                    /\ fetch'[k].pc = "check" /\ fetch'[k].status = 0
                    /\ fetch'[k].path = IF HasPath(fetch'[k].task_id)
                                        THEN file_store[fetch'[k].task_id] ELSE <<>>
                    /\ UNCHANGED <<progress_store, file_store, disk>>
             /\ (fetch[k].pc = "check" /\ fetch'[k].pc # "check") =>
                    /\ fetch'[k].status = 404 <=>
                           (fetch[k].path = <<>> \/ fetch[k].path \notin disk)
                    /\ fetch'[k].status = 404 => fetch'[k].pc = "done"
                    /\ UNCHANGED <<progress_store, file_store, disk>>
             /\ (fetch[k].status # 404 /\ fetch'[k].status = 404) => fetch[k].pc = "check"
             /\ fetch[k].status = 404 => fetch'[k] = fetch[k]]_vars
    /\ [](\A k \in FetchIds : fetch[k].status = 404 => fetch[k].pc = "done")

\* a fetch found a stored path whose file is not on disk
C11_Witness ==
    \E k \in FetchIds : fetch[k].status = 404 /\ fetch[k].path # <<>>

(***************************************************************************)
(* C12.  A poll never fails: it answers 200 with the value stored for the  *)
(* id, or 0.0 when the id has no entry, and it changes neither dict (it    *)
(* creates no entry for an unknown id).                                    *)
(***************************************************************************)
C12_Poll ==
    /\ [](polled # NoPoll =>
             /\ polled.status = 200
             /\ polled.progress = IF HasProgress(polled.task_id)
                                  THEN progress_store[polled.task_id] ELSE Float(0))
    /\ [][polled' # NoPoll => UNCHANGED <<progress_store, file_store, disk>>]_vars

\* polls of an id never submitted and of a consumed id both answered 0.0
C12_Witness ==
    /\ polled # NoPoll /\ polled.progress = Float(0)
    /\ ~HasProgress(polled.task_id)
    /\ Delivered(polled.task_id)

(***************************************************************************)
(* C13.  For type "video" the format selector handed to the library caps   *)
(* the video height at 1080 for quality "1080", at 720 for quality "720",  *)
(* and not at all for any other quality.                                   *)
(* Fails: the selector is "bestvideo[height<=N]+bestaudio/best", and its   *)
(* fallback alternative "best" carries no height filter.                   *)
(***************************************************************************)
\* ydl_opts has been handed to YoutubeDL
Handed(t) == pc[t] \notin {"none", "accepted", "scheduled"}

CarriesVideo(stream) == stream.name \in {"bestvideo", "best"}

\* every alternative of the selector limits the video it picks to max_height
CapsHeight(format, max_height) ==
    \A a \in 1..Len(format) : \A i \in 1..Len(format[a]) :
        CarriesVideo(format[a][i]) => format[a][i].max_height = max_height

C13_HeightCap ==
    \A t \in TaskIds :
        (Handed(t) /\ req[t].type = "video") =>
            CapsHeight(ydl_opts[t].format,
                       IF req[t].quality = "1080" THEN 1080
                       ELSE IF req[t].quality = "720" THEN 720 ELSE 0)

(***************************************************************************)
(* C14.  The path recorded for a task ends in .mp4 when the request type   *)
(* is "video" and in .mp3 for every other type; every type other than      *)
(* "video" gets the audio selector and the mp3 transcode with the          *)
(* requested quality, "video" gets a video selector and no transcode.      *)
(***************************************************************************)
C14_Extension ==
    \A t \in TaskIds :
        HasPath(t) =>
            IF req[t].type = "video"
            THEN /\ file_store[t] = <<t, "mp4">>
                 /\ ydl_opts[t].format[1][1].name = "bestvideo"
                 /\ ydl_opts[t].postprocessors = <<>>
            ELSE /\ file_store[t] = <<t, "mp3">>
                 /\ ydl_opts[t].format[1] = <<Stream("bestaudio", 0)>>
                 /\ ydl_opts[t].postprocessors =
                        << [key |-> "FFmpegExtractAudio", preferredcodec |-> "mp3",
                            preferredquality |-> req[t].quality] >>

\* an invalid type took the audio branch twice: selector and extension
C14_Witness ==
    \E t \in TaskIds :
        HasPath(t) /\ req[t].type = "clip" /\ file_store[t] = <<t, "mp3">>

(***************************************************************************)
(* C15.  Once the hook of a task has received a "finished" event, the      *)
(* task's stored progress is 99 at every later hook event, until           *)
(* extract_info returns or raises.                                         *)
(* Fails: "finished" is sent per stream; the "downloading" events of the   *)
(* next stream overwrite the 99 (line 43).                                 *)
(***************************************************************************)
C15_PinnedAt99 ==
    \A t \in finished_seen : ProgressIs(t, Float(99))

(***************************************************************************)
(* C16.  A "downloading" event whose percent string is missing or does not *)
(* parse as a number leaves the task's stored progress as it was.          *)
(* Fails for the missing string: line 41 defaults it to "0%", which parses *)
(* and stores 0.0.  The unparseable string keeps the value (line 45).      *)
(***************************************************************************)
\* the event carries no percent string, or one float() rejects
NoPercent(d) ==
    /\ d["status"] = "downloading"
    /\ "_percent_str" \in DOMAIN d =>
           ~ParseFloat(Strip(RemoveChar(d["_percent_str"], "%"))).ok

C16_KeepsPrevious ==
    [][\A t \in TaskIds : \A d \in HookEvents :
          (NoPercent(d) /\ hook(t, d)) => Entry(t)' = Entry(t)]_vars

(***************************************************************************)
(* C17.  No fetch that passed the existence check (line 133) finds its     *)
(* file removed when its response is sent, also when fetches of one id     *)
(* overlap.                                                                *)
(* Fails: two handlers pass line 133 for the same path; the first one's    *)
(* response is sent and its os.remove runs before the second response      *)
(* opens the file, which then fails with status 500.                       *)
(***************************************************************************)
C17_FileThereWhenSent ==
    \A k \in FetchIds : fetch[k].status # 500

(***************************************************************************)
(* C18.  Every store write made for task A by a hook event, by the         *)
(* orchestrator's completion or failure, or by a fetch leaves the progress *)
(* entry and the path entry of every other task B as they were: a step    *)
(* that changes an entry of B is no step for another task A, it is a step  *)
(* for B or the submit that creates B.                                     *)
(***************************************************************************)
\* the path entry as a set: empty when the id has none
PathEntry(t) == IF HasPath(t) THEN {file_store[t]} ELSE {}

\* a step of a hook, of the orchestrator or of a fetch made for task t
StepFor(t) ==
    \/ Orchestrate(t)
    \/ \E k \in FetchIds : fetch[k].pc # "idle" /\ fetch[k].task_id = t /\ Fetch(k)

C18_Isolated ==
    [][\A b \in TaskIds :
          (Entry(b)' # Entry(b) \/ PathEntry(b)' # PathEntry(b)) =>
             /\ \A a \in TaskIds \ {b} : ~StepFor(a)
             /\ \/ StepFor(b)
                \/ pc[b] = "none" /\ pc'[b] = "accepted"]_vars

\* task a got hook events, failed and was cleaned up while b kept its result
C18_Witness ==
    \E a, b \in TaskIds :
        /\ a # b
        /\ pc[a] = "failed" /\ ProgressIs(a, Float(-1))
        /\ HasPath(b) /\ ProgressIs(b, Float(100))

====
